---- MODULE Spec2Model ----
(***************************************************************************)
(* Model of src/src/__init__.py of nnue-interface: the cache locator       *)
(* get_nnue_dir, the asset provisioner download_nnue_files and the module  *)
(* initialisation that runs them, publishes NNUE_DIR and loads the native  *)
(* extension.                                                              *)
(*                                                                         *)
(* Paths are sequences of path components.  A file's content is one of     *)
(* "absent", "partial" (opened for writing, not all bytes written),        *)
(* "good" (the bytes the asset is meant to have) and "bad" (complete, but  *)
(* other bytes).  Every process that imports the module is one element of  *)
(* Procs; proc[p] holds its program counter and its local variables.       *)
(***************************************************************************)
EXTENDS Naturals, Sequences, FiniteSets

VARIABLES platform, environ, sha256, dirs, files, proc, runs, ext, prev

vars == <<platform, environ, sha256, dirs, files, proc, runs, ext, prev>>

\* ------------------------------------------------------------------ bounds
\* Number of times the module is imported one after the other in Spec.
MaxRuns == 2
\* Number of changes made by something other than the modelled processes.
MaxExt == 1

\* --------------------------------------------------------------- constants
Procs == {1, 2}

\* The value of a dictionary lookup that finds nothing.
None == <<>>

\* sys.platform values the code tells apart: "win32", "darwin", anything else.
Platforms == {"win32", "darwin", "linux"}

\* NNUE_FILES.items() in insertion order.
NNUE_FILES == <<"nn-1c0000000000.nnue", "nn-37f18f62d772.nnue">>

Assets == {NNUE_FILES[i] : i \in 1..Len(NNUE_FILES)}

\* The file get_nnue_dir looks for next to the module.
MARKER == "nn-1c0000000000.nnue"

\* Path(__file__)
MODULE_FILE == <<"src", "__init__.py">>

\* Path.home()
HOME == <<"home">>

\* The values the two environment variables take when they are set.
ENV_VALUE == [LOCALAPPDATA |-> <<"localappdata">>, XDG_CACHE_HOME |-> <<"xdg_cache_home">>]

EnvKeys == {"LOCALAPPDATA", "XDG_CACHE_HOME"}

\* ----------------------------------------------------------------- pathlib
\* Path.__truediv__
Join(path, name) == Append(path, name)

\* Path.parent
Parent(path) == SubSeq(path, 1, Len(path) - 1)

\* os.environ.get(key, default)
EnvGet(env, key, default) == IF env[key] = None THEN default ELSE env[key]

\* Path.exists()
Exists(fs, path) == fs[path] # "absent"

\* hashlib.sha256(bytes).hexdigest(): one digest per content
Sha256Hex(content) == <<"sha256", content>>

\* The digest a descriptor declares when it declares one: that of the good bytes.
DECLARED == Sha256Hex("good")

\* ------------------------------------------------------------ get_nnue_dir
src_dir == Parent(MODULE_FILE)

\* The cache root with XDG_CACHE_HOME honoured on every platform but Windows.
cache_dir_xdg_on_darwin(plat, env) ==
    IF plat = "win32"
    THEN EnvGet(env, "LOCALAPPDATA", Join(Join(HOME, "AppData"), "Local"))
    ELSE EnvGet(env, "XDG_CACHE_HOME",
                IF plat = "darwin" THEN Join(Join(HOME, "Library"), "Caches")
                ELSE Join(HOME, ".cache"))

\* Lines 33-38: the platform's user cache root.
cache_dir(plat, env) ==
    IF plat = "win32"
    THEN EnvGet(env, "LOCALAPPDATA", Join(Join(HOME, "AppData"), "Local"))
    ELSE IF plat = "darwin"
    THEN Join(Join(HOME, "Library"), "Caches")
    ELSE EnvGet(env, "XDG_CACHE_HOME", Join(HOME, ".cache"))

\* Every directory get_nnue_dir can return.
AllDirs ==
    {src_dir} \cup
    {Join(root, "stockfish_nnue") :
        root \in {ENV_VALUE.LOCALAPPDATA, ENV_VALUE.XDG_CACHE_HOME,
                  Join(Join(HOME, "AppData"), "Local"),
                  Join(Join(HOME, "Library"), "Caches"),
                  Join(HOME, ".cache")}}

AllFiles == {Join(d, a) : d \in AllDirs, a \in Assets}

\* Path.mkdir(parents=True, exist_ok=...): the directories afterwards and the
\* exception raised.  fault: the operating system refuses to create it.
mkdir(ds, path, exist_ok, fault) ==
    IF path \in ds
    THEN [dirs |-> ds, exc |-> IF exist_ok THEN "none" ELSE "FileExistsError"]
    ELSE IF fault
    THEN [dirs |-> ds, exc |-> "PermissionError"]
    ELSE [dirs |-> ds \cup {path}, exc |-> "none"]

\* get_nnue_dir without the development-mode check of lines 28-30.
get_nnue_dir_no_marker(plat, env, fs, ds, fault) ==
    LET nnue_dir == Join(cache_dir(plat, env), "stockfish_nnue")
        made == mkdir(ds, nnue_dir, TRUE, fault)
    IN  [path |-> nnue_dir, dirs |-> made.dirs, exc |-> made.exc]

\* Lines 25-42: get_nnue_dir: the path returned, the directories that exist
\* afterwards and the exception raised ("none": it returns).
get_nnue_dir(plat, env, fs, ds, fault) ==
    IF Exists(fs, Join(src_dir, MARKER))
    THEN [path |-> src_dir, dirs |-> ds, exc |-> "none"]
    ELSE LET nnue_dir == Join(cache_dir(plat, env), "stockfish_nnue")
             made == mkdir(ds, nnue_dir, TRUE, fault)
         IN  [path |-> nnue_dir, dirs |-> made.dirs, exc |-> made.exc]

\* ------------------------------------------------------------ process state
\* proc[p].pc is the line of __init__.py the process executes next ("off":
\* the process does not exist); these are the ways an import ends.
Terminal == {"done", "raised", "raised76", "interrupted", "import_failed"}

\* A process that has just started to import the module.  Besides the
\* program's own variables (nnue_dir, the loop index, the exception being
\* handled, os.environ["NNUE_DIR"], the warnings printed to stderr) it
\* records what happened: the assets for which urlretrieve was called, the
\* bytes each call delivered, the assets whose loop iteration ended, whether
\* an operation was made to fail, whether the file it writes has been
\* unlinked under it, whether the world changed after line 73, and what the
\* first get_nnue_dir call found (the marker; no asset in the directory).
Fresh ==
    [pc |-> "call73", nnue_dir |-> None, idx |-> 1, exc |-> "none",
     NNUE_DIR |-> None, warnings |-> <<>>, retrieved |-> {},
     fetched |-> [a \in Assets |-> "none"], processed |-> {},
     faulted |-> FALSE, detached |-> FALSE, changed |-> FALSE,
     markerSeen |-> FALSE, emptyStart |-> FALSE]

NotStarted == [Fresh EXCEPT !.pc = "off"]

\* Line 48-49: the asset of the current loop iteration and its target path.
filename(s) == NNUE_FILES[s.idx]

filepath(s) == Join(s.nnue_dir, filename(s))

\* Line 48: on to the next item of the loop; after the last one
\* download_nnue_files returns and line 76 is next.
Advance(s) ==
    [s EXCEPT !.idx = s.idx + 1,
              !.processed = @ \cup {filename(s)},
              !.exc = "none",
              !.detached = FALSE,
              !.pc = IF s.idx + 1 > Len(NNUE_FILES) THEN "publish76" ELSE "exists51"]

\* An exception leaves download_nnue_files, and with it line 73.
Raise(s, e) == [s EXCEPT !.pc = "raised", !.exc = e]

\* Line 67: an Exception raised inside the try block is caught.
Catch(s, e) == [s EXCEPT !.pc = "except68", !.exc = e]

\* The processes that hold the file at path open for writing.
Writers(path) ==
    {q \in Procs : proc[q].pc = "urlwrite56" /\ filepath(proc[q]) = path}

\* Path.unlink() by process p: the name is removed; a process that still
\* writes to the file keeps writing to a file that has no name any more.
Unlinked(p, s, path) ==
    [q \in Procs |->
        IF q = p THEN s
        ELSE IF q \in Writers(path) THEN [proc[q] EXCEPT !.detached = TRUE]
        ELSE proc[q]]

\* ------------------------------------------------------------------ actions
\* Line 73 -> 46: download_nnue_files starts and calls get_nnue_dir, outside
\* any try block.
DownloadStart(p) ==
    /\ proc[p].pc = "call73"
    /\ \E fault \in BOOLEAN :
         LET r == get_nnue_dir(platform, environ, files, dirs, fault)
             s == proc[p]
         IN  /\ r.path \in dirs => ~fault
             /\ dirs' = r.dirs
             /\ proc' = [proc EXCEPT ![p] =
                   IF r.exc # "none"
                   THEN [Raise(s, r.exc) EXCEPT !.faulted = TRUE]
                   ELSE [s EXCEPT !.nnue_dir = r.path, !.idx = 1, !.pc = "exists51",
                                  !.markerSeen = Exists(files, Join(src_dir, MARKER)),
                                  !.emptyStart = \A a \in Assets :
                                                    ~Exists(files, Join(r.path, a))]]
    /\ UNCHANGED <<platform, environ, sha256, files, runs, ext, prev>>

\* The loop body without the skip of lines 51-52.
CheckExists_no_skip(p) ==
    /\ proc[p].pc = "exists51"
    /\ LET s == proc[p] IN
       \E fault \in BOOLEAN :
         proc' = [proc EXCEPT ![p] =
            IF fault THEN [Raise(s, "OSError") EXCEPT !.faulted = TRUE]
            ELSE [s EXCEPT !.pc = "urlretrieve56",
                           !.retrieved = @ \cup {filename(s)}]]
    /\ UNCHANGED <<platform, environ, sha256, dirs, files, runs, ext, prev>>

\* Lines 51-54: the existence check, outside the try block: it raises (the
\* stat fails for another reason than the file missing), or the asset is
\* skipped, or its retrieval is announced and begun.
CheckExists(p) ==
    /\ proc[p].pc = "exists51"
    /\ LET s == proc[p] IN
       \E fault \in BOOLEAN :
         proc' = [proc EXCEPT ![p] =
            IF fault THEN [Raise(s, "OSError") EXCEPT !.faulted = TRUE]
            ELSE IF Exists(files, filepath(s)) THEN Advance(s)
            ELSE [s EXCEPT !.pc = "urlretrieve56",
                           !.retrieved = @ \cup {filename(s)}]]
    /\ UNCHANGED <<platform, environ, sha256, dirs, files, runs, ext, prev>>

\* Line 56, first half: urlretrieve opens the URL, then opens the target
\* path itself for writing, which creates or truncates it.
UrlRetrieveOpen(p) ==
    /\ proc[p].pc = "urlretrieve56"
    /\ LET s == proc[p] IN
       \E outcome \in {"URLError", "OSError", "opened"} :
         IF outcome = "opened"
         THEN /\ files' = [files EXCEPT ![filepath(s)] = "partial"]
              /\ proc' = [proc EXCEPT ![p] = [s EXCEPT !.pc = "urlwrite56"]]
         ELSE /\ files' = files
              /\ proc' = [proc EXCEPT ![p] =
                             [Catch(s, outcome) EXCEPT !.faulted = TRUE]]
    /\ UNCHANGED <<platform, environ, sha256, dirs, runs, ext, prev>>

\* Line 56, second half: the blocks are written to the target path: all of
\* them (the bytes are the asset's, or others), or the transfer breaks off
\* and what was written stays.
UrlRetrieveWrite(p) ==
    /\ proc[p].pc = "urlwrite56"
    /\ LET s == proc[p] IN
       \E outcome \in {"good", "bad", "ContentTooShortError"} :
         IF outcome = "ContentTooShortError"
         THEN /\ files' = files
              /\ proc' = [proc EXCEPT ![p] =
                             [Catch(s, outcome) EXCEPT !.faulted = TRUE]]
         ELSE /\ files' = IF s.detached THEN files
                          ELSE [files EXCEPT ![filepath(s)] = outcome]
              /\ proc' = [proc EXCEPT ![p] =
                             [s EXCEPT !.pc = "verify59",
                                       !.fetched[filename(s)] = outcome]]
    /\ UNCHANGED <<platform, environ, sha256, dirs, runs, ext, prev>>

\* The process is interrupted or killed while urlretrieve writes:
\* KeyboardInterrupt is no Exception, so line 67 does not catch it.
Interrupt(p) ==
    /\ proc[p].pc = "urlwrite56"
    /\ proc' = [proc EXCEPT ![p] = [@ EXCEPT !.pc = "interrupted",
                                             !.exc = "KeyboardInterrupt"]]
    /\ UNCHANGED <<platform, environ, sha256, dirs, files, runs, ext, prev>>

\* Lines 59-62 and 66: without a declared digest the asset is accepted;
\* with one the file at the target path is read back and hashed.
Verify(p) ==
    /\ proc[p].pc = "verify59"
    /\ LET s == proc[p]
           declared == sha256[filename(s)]
       IN  proc' = [proc EXCEPT ![p] =
              IF declared = None THEN Advance(s)
              ELSE IF ~Exists(files, filepath(s)) THEN Catch(s, "FileNotFoundError")
              ELSE IF Sha256Hex(files[filepath(s)]) # declared
              THEN [s EXCEPT !.pc = "unlink63"]
              ELSE Advance(s)]
    /\ UNCHANGED <<platform, environ, sha256, dirs, files, runs, ext, prev>>

\* Lines 63-64: the mismatching file is unlinked and ValueError raised; an
\* unlink that fails raises OSError instead.  Either is caught at line 67.
UnlinkMismatch(p) ==
    /\ proc[p].pc = "unlink63"
    /\ LET s == proc[p] IN
       \E fault \in BOOLEAN :
         IF ~Exists(files, filepath(s))
         THEN /\ ~fault
              /\ files' = files
              /\ proc' = [proc EXCEPT ![p] = Catch(s, "FileNotFoundError")]
         ELSE IF fault
         THEN /\ files' = files
              /\ proc' = [proc EXCEPT ![p] =
                             [Catch(s, "OSError") EXCEPT !.faulted = TRUE]]
         ELSE /\ files' = [files EXCEPT ![filepath(s)] = "absent"]
              /\ proc' = Unlinked(p, Catch(s, "ValueError"), filepath(s))
    /\ UNCHANGED <<platform, environ, sha256, dirs, runs, ext, prev>>

\* Lines 67-69: the warning is printed, then the target path is checked;
\* an exception of that check leaves the handler and the function.
ExceptHandler(p) ==
    /\ proc[p].pc = "except68"
    /\ LET s == proc[p]
           w == [s EXCEPT !.warnings =
                    Append(@, [asset |-> filename(s), exc |-> s.exc])]
       IN  \E fault \in BOOLEAN :
             proc' = [proc EXCEPT ![p] =
                IF fault THEN [Raise(w, "OSError") EXCEPT !.faulted = TRUE]
                ELSE IF Exists(files, filepath(s)) THEN [w EXCEPT !.pc = "unlink70"]
                ELSE Advance(w)]
    /\ UNCHANGED <<platform, environ, sha256, dirs, files, runs, ext, prev>>

\* Line 70: the handler unlinks the target path; nothing catches what this
\* unlink raises.
UnlinkCleanup(p) ==
    /\ proc[p].pc = "unlink70"
    /\ LET s == proc[p] IN
       \E fault \in BOOLEAN :
         IF ~Exists(files, filepath(s))
         THEN /\ ~fault
              /\ files' = files
              /\ proc' = [proc EXCEPT ![p] = Raise(s, "FileNotFoundError")]
         ELSE IF fault
         THEN /\ files' = files
              /\ proc' = [proc EXCEPT ![p] =
                             [Raise(s, "OSError") EXCEPT !.faulted = TRUE]]
         ELSE /\ files' = [files EXCEPT ![filepath(s)] = "absent"]
              /\ proc' = Unlinked(p, Advance(s), filepath(s))
    /\ UNCHANGED <<platform, environ, sha256, dirs, runs, ext, prev>>

\* Line 76 publishing the user cache directory whatever get_nnue_dir says.
Publish_cache_only(p) ==
    /\ proc[p].pc = "publish76"
    /\ \E fault \in BOOLEAN :
         LET r == get_nnue_dir_no_marker(platform, environ, files, dirs, fault)
             s == proc[p]
         IN  /\ r.path \in dirs => ~fault
             /\ dirs' = r.dirs
             /\ proc' = [proc EXCEPT ![p] =
                   IF r.exc # "none"
                   THEN [s EXCEPT !.pc = "raised76", !.exc = r.exc, !.faulted = TRUE]
                   ELSE [s EXCEPT !.NNUE_DIR = r.path, !.pc = "import80"]]
    /\ UNCHANGED <<platform, environ, sha256, files, runs, ext, prev>>

\* Line 76: get_nnue_dir is called a second time and its result published.
Publish(p) ==
    /\ proc[p].pc = "publish76"
    /\ \E fault \in BOOLEAN :
         LET r == get_nnue_dir(platform, environ, files, dirs, fault)
             s == proc[p]
         IN  /\ r.path \in dirs => ~fault
             /\ dirs' = r.dirs
             /\ proc' = [proc EXCEPT ![p] =
                   IF r.exc # "none"
                   THEN [s EXCEPT !.pc = "raised76", !.exc = r.exc, !.faulted = TRUE]
                   ELSE [s EXCEPT !.NNUE_DIR = r.path, !.pc = "import80"]]
    /\ UNCHANGED <<platform, environ, sha256, files, runs, ext, prev>>

\* Lines 79-90: the native extension is imported; an ImportError is
\* reported and raised again.
ImportExtension(p) ==
    /\ proc[p].pc = "import80"
    /\ \E ok \in BOOLEAN :
         proc' = [proc EXCEPT ![p] =
            IF ok THEN [@ EXCEPT !.pc = "done"]
            ELSE [@ EXCEPT !.pc = "import_failed", !.exc = "ImportError"]]
    /\ UNCHANGED <<platform, environ, sha256, dirs, files, runs, ext, prev>>

\* The module is imported again by a later process, once every earlier
\* import has ended; what the ended run left is remembered in prev.
NewRun(p) ==
    /\ proc[p].pc \in Terminal
    /\ \A q \in Procs : proc[q].pc \in Terminal \cup {"off"}
    /\ runs < MaxRuns
    /\ runs' = runs + 1
    /\ prev' = [ok |-> proc[p].processed = Assets /\ proc[p].warnings = <<>>,
                dir |-> proc[p].nnue_dir,
                retrieved |-> proc[p].retrieved,
                files |-> files]
    /\ proc' = [proc EXCEPT ![p] = Fresh]
    /\ UNCHANGED <<platform, environ, sha256, dirs, files, ext>>

\* Something else than the modelled processes changes what get_nnue_dir
\* reads, between line 73 and line 76: the marker file appears or
\* disappears, or an environment variable is set or unset.
ExternalChange ==
    /\ ext < MaxExt
    /\ \E p \in Procs : proc[p].pc = "publish76"
    /\ \A p \in Procs : proc[p].pc \in {"off", "publish76"} \cup Terminal
    /\ ext' = ext + 1
    /\ \/ /\ files' = [files EXCEPT ![Join(src_dir, MARKER)] =
                          IF @ = "absent" THEN "good" ELSE "absent"]
          /\ environ' = environ
       \/ /\ \E k \in EnvKeys :
                environ' = [environ EXCEPT ![k] =
                               IF @ = None THEN ENV_VALUE[k] ELSE None]
          /\ files' = files
    /\ proc' = [p \in Procs |->
                  IF proc[p].pc = "publish76"
                  THEN [proc[p] EXCEPT !.changed = TRUE] ELSE proc[p]]
    /\ UNCHANGED <<platform, sha256, dirs, runs, prev>>

\* ------------------------------------------------------------ specification
\* What the file system and the environment can be when the module is
\* imported.  The shipped NNUE_FILES declares no digest (sha256 None for
\* both assets); the digest field ranges over both cases so that lines 59-64
\* are exercised.
InitWorld ==
    /\ platform \in Platforms
    /\ environ \in [EnvKeys -> {None} \cup {ENV_VALUE[k] : k \in EnvKeys}]
    /\ \A k \in EnvKeys : environ[k] \in {None, ENV_VALUE[k]}
    /\ sha256 \in [Assets -> {None, DECLARED}]
    /\ \E made \in BOOLEAN :
       \E inSrc \in [Assets -> {"absent", "good"}] :
       \E inCache \in [Assets -> {"absent", "good"}] :
         /\ inSrc[MARKER] = "absent" => \A a \in Assets : inSrc[a] = "absent"
         /\ ~made => \A a \in Assets : inCache[a] = "absent"
         /\ dirs = IF made THEN AllDirs ELSE {src_dir}
         /\ files = [f \in AllFiles |->
                       IF Parent(f) = src_dir THEN inSrc[f[Len(f)]]
                       ELSE inCache[f[Len(f)]]]
    /\ runs = 1
    /\ ext = 0
    /\ prev = [ok |-> FALSE, dir |-> None, retrieved |-> {}, files |-> files]

\* One process imports the module; later imports follow one after the other.
Init ==
    /\ InitWorld
    /\ proc = [p \in Procs |-> IF p = 1 THEN Fresh ELSE NotStarted]

\* One step of one import of the module.
Step(p) ==
    \/ DownloadStart(p)
    \/ CheckExists(p)
    \/ UrlRetrieveOpen(p)
    \/ UrlRetrieveWrite(p)
    \/ Interrupt(p)
    \/ Verify(p)
    \/ UnlinkMismatch(p)
    \/ ExceptHandler(p)
    \/ UnlinkCleanup(p)
    \/ Publish(p)
    \/ ImportExtension(p)

Next == (\E p \in Procs : Step(p) \/ NewRun(p)) \/ ExternalChange

Spec == Init /\ [][Next]_vars

\* Two processes import the module at the same time, on a Unix-like system
\* with an empty cache.
InitConc ==
    /\ InitWorld
    /\ platform = "linux"
    /\ environ = [k \in EnvKeys |-> None]
    /\ dirs = {src_dir}
    /\ \A f \in AllFiles : files[f] = "absent"
    /\ proc = [p \in Procs |-> Fresh]

NextConc == \E p \in Procs : Step(p)

SpecConc == InitConc /\ [][NextConc]_vars

\* ------------------------------------------------------------------- claims
\* download_nnue_files has returned to line 73's caller.
Returned(s) == s.pc \in {"publish76", "import80", "raised76", "done", "import_failed"}

\* download_nnue_files has ended: it returned or an exception left it.
Ended(s) == Returned(s) \/ s.pc = "raised"

\* The assets of this run whose retrieval and verification succeeded.
Succeeded(s) ==
    {a \in Assets : s.fetched[a] # "none"
                    /\ (sha256[a] = None \/ Sha256Hex(s.fetched[a]) = sha256[a])}

\* The assets of this run whose retrieval was begun and did not succeed.
Failed(s) == s.retrieved \ Succeeded(s)

\* The assets a warning was printed for.
Warned(s) == {s.warnings[i].asset : i \in 1..Len(s.warnings)}

\* C1: download_nnue_files never raises to its caller: whatever fails for an
\* asset, and also when the cache directory cannot be resolved, the call
\* returns, the failure is a warning and the failed asset's file is absent.
C1_NeverRaises ==
    \A p \in Procs :
        /\ proc[p].pc # "raised"
        /\ Returned(proc[p]) =>
             \A a \in Failed(proc[p]) :
                /\ a \in Warned(proc[p])
                /\ ~Exists(files, Join(proc[p].nnue_dir, a))

\* C2: a retrieval is begun only for an asset whose target file does not
\* exist; and a run that follows, in the same cache directory, a run that
\* processed every asset without a warning begins no retrieval and leaves
\* every file of that directory as it was.
C2_NoRetrievalWhenCached ==
    /\ proc[1].pc = "urlretrieve56" => ~Exists(files, filepath(proc[1]))
    /\ (runs >= 2 /\ prev.ok /\ proc[1].nnue_dir = prev.dir /\ ~proc[1].changed) =>
          /\ proc[1].retrieved = {}
          /\ \A a \in Assets : files[Join(prev.dir, a)] = prev.files[Join(prev.dir, a)]

\* C2's case: the first run retrieved both assets, and the second run, in the
\* same directory, has gone through both and ended.
C2_Witness ==
    /\ runs = 2
    /\ prev.ok
    /\ prev.retrieved = Assets
    /\ proc[1].pc = "done"
    /\ proc[1].nnue_dir = prev.dir
    /\ proc[1].processed = Assets

\* C3: when the bytes retrieved for an asset with a declared digest have
\* another digest, then once provisioning has ended no file is at the
\* asset's target path, a warning names that asset, and every other asset
\* has been processed.
C3_MismatchLeavesNoFile ==
    Ended(proc[1]) =>
       \A a \in Assets :
          (sha256[a] # None /\ proc[1].fetched[a] = "bad") =>
             /\ ~Exists(files, Join(proc[1].nnue_dir, a))
             /\ a \in Warned(proc[1])
             /\ proc[1].processed = Assets

\* C4: a failure for one asset keeps no other asset from being processed and
\* leaves no file of the failed asset; after a run that started from an
\* empty cache the files that exist are those of the assets that succeeded
\* and there are as many warnings as failed assets.
C4_FailureIsolation ==
    (Ended(proc[1]) /\ proc[1].nnue_dir # None) =>
       /\ Failed(proc[1]) # {} => proc[1].processed = Assets
       /\ \A a \in Failed(proc[1]) : ~Exists(files, Join(proc[1].nnue_dir, a))
       /\ proc[1].emptyStart =>
            /\ {a \in Assets : Exists(files, Join(proc[1].nnue_dir, a))}
                  = Succeeded(proc[1])
            /\ Len(proc[1].warnings) = Cardinality(Failed(proc[1]))

\* The native module is about to be loaded or has been.
Published(s) == s.pc \in {"import80", "done", "import_failed"}

DocumentedDir ==
    IF files[<<"src", "nn-1c0000000000.nnue">>] # "absent" THEN <<"src">>
    ELSE IF platform = "win32"
    THEN IF environ["LOCALAPPDATA"] # None
         THEN <<"localappdata", "stockfish_nnue">>
         ELSE <<"home", "AppData", "Local", "stockfish_nnue">>
    ELSE IF platform = "darwin"
    THEN <<"home", "Library", "Caches", "stockfish_nnue">>
    ELSE IF environ["XDG_CACHE_HOME"] # None
         THEN <<"xdg_cache_home", "stockfish_nnue">>
         ELSE <<"home", ".cache", "stockfish_nnue">>

\* C6: each call of get_nnue_dir (line 46 and line 76) that returns, returns
\* the documented directory for the platform, the environment and the
\* marker as they are at the call, and that directory exists afterwards; a
\* call whose directory exists already does not fail.
C6_LocatorPrecedence ==
    [][\A p \in Procs :
          /\ (proc[p].pc = "call73" /\ proc'[p].pc = "exists51") =>
                proc'[p].nnue_dir = DocumentedDir /\ DocumentedDir \in dirs'
          /\ (proc[p].pc = "publish76" /\ proc'[p].pc = "import80") =>
                proc'[p].NNUE_DIR = DocumentedDir /\ DocumentedDir \in dirs'
          /\ (proc[p].pc \in {"call73", "publish76"} /\ DocumentedDir \in dirs) =>
                proc'[p].pc \notin {"raised", "raised76"}]_vars

\* C6's case: on macOS, with both variables set, no marker and no cache
\* directory before the call, get_nnue_dir has returned ~/Library/Caches.
C6_Witness ==
    /\ platform = "darwin"
    /\ environ["XDG_CACHE_HOME"] # None
    /\ environ["LOCALAPPDATA"] # None
    /\ proc[1].pc = "exists51"
    /\ proc[1].idx = 1
    /\ ~proc[1].markerSeen
    /\ proc[1].nnue_dir = <<"home", "Library", "Caches", "stockfish_nnue">>
    /\ runs = 1

\* C7 as stated: with the marker present next to the module, the module's
\* directory is the cache directory and no asset is retrieved in that run.
C7_DevModeNoNetwork ==
    \A p \in Procs :
        proc[p].markerSeen =>
            proc[p].nnue_dir = src_dir /\ proc[p].retrieved = {}

\* C7 amended: with the marker present next to the module, the module's
\* directory is the cache directory and the marker asset is not retrieved;
\* an asset retrieved in that run is one whose file that directory lacked.
C7_DevModeSkipsMarker ==
    proc[1].markerSeen =>
        /\ proc[1].nnue_dir = src_dir
        /\ MARKER \notin proc[1].retrieved
        /\ proc[1].pc = "urlretrieve56" => ~Exists(files, filepath(proc[1]))

\* C7's case: the marker was found, the environment points elsewhere, and
\* the other asset, missing next to the module, has been fetched into it.
C7_Witness ==
    /\ proc[1].markerSeen
    /\ environ["XDG_CACHE_HOME"] # None
    /\ platform = "linux"
    /\ proc[1].pc = "done"
    /\ proc[1].retrieved = {"nn-37f18f62d772.nnue"}
    /\ files[Join(src_dir, "nn-37f18f62d772.nnue")] = "good"

\* C8: a file exists at a target path only as the complete content
\* retrieved, at every point of a retrieval and after an interruption; no
\* run skips, as already cached, an asset whose file is partly written.
C8_AtomicInstall ==
    /\ \A f \in AllFiles : files[f] # "partial"
    /\ \A p \in Procs :
          \A a \in proc[p].processed \ proc[p].retrieved :
             files[Join(proc[p].nnue_dir, a)] # "partial"

\* No process is between line 51 and the end of the loop body.
Quiescent ==
    \A p \in Procs : proc[p].pc \in {"off", "call73", "publish76", "import80"} \cup Terminal

\* C9: for every asset with a declared digest, a file at its target path has
\* that digest; stated here for the states in which no process is in the
\* middle of an asset, those most favourable to the claim.
C9_CacheIntegrity ==
    Quiescent =>
       \A d \in AllDirs : \A a \in Assets :
          (sha256[a] # None /\ Exists(files, Join(d, a))) =>
              Sha256Hex(files[Join(d, a)]) = sha256[a]

\* C10: two processes provision the same cache at once, nothing is made to
\* fail and every retrieval delivers the asset's bytes: once both have
\* returned, every asset's file is there, complete, and no warning was
\* printed.
C10_RaceTolerated ==
    ((\A p \in Procs : Ended(proc[p]) /\ ~proc[p].faulted)
       /\ \A p \in Procs : \A a \in Assets : proc[p].fetched[a] # "bad") =>
          /\ \A p \in Procs : proc[p].pc # "raised" /\ proc[p].warnings = <<>>
          /\ \A a \in Assets : files[Join(proc[1].nnue_dir, a)] = "good"

====
